---- MODULE Spec2Model ----
(***************************************************************************)
(* A model of the robo HTTP router (src/mux.go): the route registry        *)
(* (Mux.Add, newRoute), the matcher (route.Check), the per-request         *)
(* dispatch queue (queue.serveNext, Request.Next) and the parameter scopes *)
(* (Parameters.set, Parameters.Get).                                       *)
(*                                                                         *)
(* Go strings whose contents the code or the claims look into (patterns,   *)
(* paths, parameter names and values) are sequences of one-character       *)
(* strings; "" is <<>>.  HTTP methods are only ever compared, and are      *)
(* plain strings.                                                          *)
(***************************************************************************)
EXTENDS Integers, Sequences, FiniteSets, TLC

VARIABLES
    routes,   \* Mux.routes: the registry, in registration order
    call,     \* the operation that ran last: "none", "Add", "ServeHTTP", ...
    args,     \* its arguments
    before,   \* Mux.routes as it was when that operation started
    panic,    \* "" or the value the operation panicked with
    q0,       \* the queue the dispatch started from
    q,        \* the queue when the dispatch returned
    log,      \* what happened during the dispatch, in order
    sink,     \* number of writes the ResponseWriter received
    p,        \* a Parameters chain under construction (ParamSpec)
    inflight  \* the requests being served at the same time (ConcSpec)

vars == <<routes, call, args, before, panic, q0, q, log, sink, p, inflight>>

(***************************************************************************)
(* Bounds.                                                                 *)
(***************************************************************************)
MaxRoutes == 2      \* Add is not taken once the registry holds this many
MaxNextCalls == 2   \* continuation calls one handler invocation makes
MaxQueued == 2      \* handlers and routes of a queue drawn by QueueInit
MaxDepth == 2       \* length of a Parameters parent chain (ParamSpec)

(***************************************************************************)
(* Strings.                                                                *)
(***************************************************************************)
Empty == <<>>
PatA == <<"/", "a">>
PatPX == <<"/", "p", "/", ":", "x">>
PatP5 == <<"/", "p", "/", "5">>
PatUsersId == <<"/", "u", "s", "e", "r", "s", "/", ":", "i", "d">>
PatFilesRest == <<"/", "f", "i", "l", "e", "s", "/", "*", "r", "e", "s", "t">>
PatWildFirst == <<"/", "*", "w", "/", "x">>
PatDupName == <<"/", ":", "x", "/", ":", "x">>
PatNoName == <<"/", ":">>
PathUsers42 == <<"/", "u", "s", "e", "r", "s", "/", "4", "2">>
PathUsersSlash == <<"/", "u", "s", "e", "r", "s", "/">>
PathFilesABC == <<"/", "f", "i", "l", "e", "s", "/", "a", "/", "b", "/", "c">>
PathFilesSlash == <<"/", "f", "i", "l", "e", "s", "/">>
KeyId == <<"i", "d">>
KeyRest == <<"r", "e", "s", "t">>
KeyX == <<"x">>
Val42 == <<"4", "2">>
Val5 == <<"5">>
ValABC == <<"a", "/", "b", "/", "c">>

(***************************************************************************)
(* Parameters (mux.go 186-211).  A *Parameters is NilParams or a record    *)
(* with its parent pointer and its values map; a map is nil (made = FALSE) *)
(* or holds the function kv.                                               *)
(***************************************************************************)
NilParams == [nil |-> TRUE]
NilMap == [made |-> FALSE, kv |-> <<>>]
ZeroParams == [nil |-> FALSE, parent |-> NilParams, values |-> NilMap]

\* m[key] of a Go map: the zero value "" when the key is absent or m is nil
MapIndex(m, key) == IF key \in DOMAIN m.kv THEN m.kv[key] ELSE Empty

\* p.set(key, value), mux.go 192-197
set(ps, key, value) ==
    LET made == IF ~ps.values.made
                THEN [made |-> TRUE, kv |-> <<>>]
                ELSE ps.values
    IN  [ps EXCEPT !.values =
            [made |-> TRUE,
             kv |-> [k \in DOMAIN made.kv \cup {key} |->
                        IF k = key THEN value ELSE made.kv[k]]]]

RECURSIVE Get(_, _)
\* Get asking the parent before the scope's own values
GetParentFirst(ps, key) ==
    IF ~ps.parent.nil /\ Get(ps.parent, key) /= Empty
    THEN Get(ps.parent, key)
    ELSE IF ps.values.made THEN MapIndex(ps.values, key) ELSE Empty

\* Get returning the scope's own value for a key it holds, empty or not
GetOwnFirst(ps, key) ==
    IF ps.values.made /\ key \in DOMAIN ps.values.kv
    THEN ps.values.kv[key]
    ELSE IF ~ps.parent.nil
         THEN Get(ps.parent, key)
         ELSE Empty

\* p.Get(key), mux.go 201-211
Get(ps, key) ==
    IF ps.values.made /\ MapIndex(ps.values, key) /= Empty
    THEN MapIndex(ps.values, key)
    ELSE IF ~ps.parent.nil
         THEN Get(ps.parent, key)
         ELSE Empty

(***************************************************************************)
(* Handlers.  An argument of Add is a value of some Go type (its shape);   *)
(* a registered Handler is what Add's type switch turned it into.          *)
(***************************************************************************)
\* the types Add accepts, mux.go 66-70
ValidShapes ==
    {"Handler", "http.Handler", "func(ResponseWriter, *Request)",
     "func(http.ResponseWriter, *http.Request)"}

H1 == [shape |-> "func(ResponseWriter, *Request)", id |-> "h1"]
H2 == [shape |-> "Handler", id |-> "h2"]
H3 == [shape |-> "http.Handler", id |-> "h3"]
H4 == [shape |-> "func(http.ResponseWriter, *http.Request)", id |-> "h4"]
Bad == [shape |-> "string", id |-> "bad"]

\* the type switch of Add, mux.go 80-91: the Handler h is appended as, or
\* "panic" when no case applies
Adapt(h) ==
    CASE h.shape = "Handler" -> [kind |-> "Handler", id |-> h.id]
      [] h.shape = "func(ResponseWriter, *Request)" ->
            [kind |-> "HandlerFunc", id |-> h.id]
      [] h.shape = "http.Handler" -> [kind |-> "httpHandler", id |-> h.id]
      [] h.shape = "func(http.ResponseWriter, *http.Request)" ->
            [kind |-> "httpHandler", id |-> h.id]
      [] OTHER -> [kind |-> "panic", id |-> h.id]

RECURSIVE Validate(_, _)
\* Validate leaving out, instead of refusing, an argument of no valid shape
ValidateSkips(clean, handlers) ==
    IF handlers = <<>>
    THEN [clean |-> clean, panic |-> ""]
    ELSE IF Adapt(Head(handlers)).kind = "panic"
         THEN Validate(clean, Tail(handlers))
         ELSE Validate(Append(clean, Adapt(Head(handlers))), Tail(handlers))

\* the loop of Add, mux.go 77-92, over the handlers still to validate
Validate(clean, handlers) ==
    IF handlers = <<>>
    THEN [clean |-> clean, panic |-> ""]
    ELSE IF Adapt(Head(handlers)).kind = "panic"
         THEN [clean |-> clean, panic |-> "not a valid handler"]
         ELSE Validate(Append(clean, Adapt(Head(handlers))), Tail(handlers))

\* newRoute, mux.go 121-130: the pattern is stored as given and never compiled
newRoute(method, pattern, handlers) ==
    [route |-> [method |-> method, pattern |-> pattern, handlers |-> handlers],
     panic |-> ""]

\* Add putting the new route in front of the others
MuxAddInFront(rs, method, pattern, handlers) ==
    IF Len(handlers) = 0
    THEN [routes |-> rs, panic |-> "no handlers provided"]
    ELSE LET v == Validate(<<>>, handlers)
             r == newRoute(method, pattern, v.clean)
         IN  IF v.panic /= ""
             THEN [routes |-> rs, panic |-> v.panic]
             ELSE [routes |-> <<r.route>> \o rs, panic |-> ""]

\* Add without the test of line 72
MuxAddUnchecked(rs, method, pattern, handlers) ==
    LET v == Validate(<<>>, handlers)
        r == newRoute(method, pattern, v.clean)
    IN  IF v.panic /= ""
        THEN [routes |-> rs, panic |-> v.panic]
        ELSE [routes |-> Append(rs, r.route), panic |-> ""]

\* m.Add(method, pattern, handlers...), mux.go 71-95: the routes after the
\* call and what it panicked with
MuxAdd(rs, method, pattern, handlers) ==
    IF Len(handlers) = 0
    THEN [routes |-> rs, panic |-> "no handlers provided"]
    ELSE LET v == Validate(<<>>, handlers)
             r == newRoute(method, pattern, v.clean)
         IN  IF v.panic /= ""
             THEN [routes |-> rs, panic |-> v.panic]
             ELSE IF r.panic /= ""
                  THEN [routes |-> rs, panic |-> r.panic]
                  ELSE [routes |-> Append(rs, r.route), panic |-> ""]

\* r.Check(method, path), mux.go 134-137: a stub that reports no match
Check(r, method, path) == [ok |-> FALSE, params |-> NilParams]

(***************************************************************************)
(* The dispatch.  A dispatch state st holds the queue, the log, the number *)
(* n of handler invocations so far, the writes the ResponseWriter received *)
(* and the panic, if any, that is unwinding the stack.  beh[k] says what   *)
(* the k-th handler invoked does: whether it writes, and how many times it *)
(* calls the continuation.                                                 *)
(***************************************************************************)
NoBehaviour == [nexts |-> 0, write |-> FALSE]
Behaviour(beh, k) == IF k \in DOMAIN beh THEN beh[k] ELSE NoBehaviour

\* an entry of the log: what happened, to which handler (h) in which of the
\* invocations (k), the scope it was handed, and the queue at that moment
Event(ev, h, k, params, st) ==
    [ev |-> ev, h |-> h, k |-> k, params |-> params, q |-> st.q]
Logged(st, ev, h, k, params) ==
    [st EXCEPT !.log = Append(@, Event(ev, h, k, params, st))]

\* queue{nil, m.routes, r.Params, nil}, mux.go 100
NewQueue(rs, params) ==
    [handlers |-> <<>>, routes |-> rs, parent |-> params, self |-> NilParams]

RECURSIVE serveNext(_, _, _)
RECURSIVE scanRoutes(_, _, _)
RECURSIVE ServeRoboHTTP(_, _, _, _, _)
RECURSIVE CallNext(_, _, _, _, _, _)

\* Next returning to its caller without waiting for what it started
RequestNextNoWait(h, k, st, hr, beh) ==
    LET called == Logged(st, "next", h, k, NilParams)
        back == Logged(called, "nextret", h, k, NilParams)
    IN  serveNext(back, hr, beh)

\* r.Next(w), mux.go 51-53, called by handler h in its invocation k
RequestNext(h, k, st, hr, beh) ==
    LET called == Logged(st, "next", h, k, NilParams)
        back == serveNext(called, hr, beh)
    IN  IF back.panic /= "" THEN back ELSE Logged(back, "nextret", h, k, NilParams)

\* the continuation calls a handler still has to make
CallNext(left, h, k, st, hr, beh) ==
    IF left = 0 \/ st.panic /= ""
    THEN st
    ELSE CallNext(left - 1, h, k, RequestNext(h, k, st, hr, beh), hr, beh)

\* a Mux that goes on with the queue of the Request it is handed
MuxEnterShared(h, k, params, st) ==
    Logged(st, "serve", h.id, k, params)

\* q := queue{nil, m.routes, r.Params, nil}, mux.go 100, in the Mux that is
\* the handler h: its dispatch runs on a queue of its own
MuxEnter(h, k, params, st) ==
    Logged([st EXCEPT !.q = NewQueue(h.routes, params)], "serve", h.id, k, params)

\* the return of m.ServeRoboHTTP, mux.go 101-102: q was its local variable,
\* and the caller is back with the queue it had, that of the state outer
MuxLeave(h, k, params, outer, st) ==
    IF st.panic /= ""
    THEN st
    ELSE Logged([st EXCEPT !.q = outer.q], "served", h.id, k, params)

\* h.ServeRoboHTTP(w, &Request{hr, params, q}) for the Handler types: a
\* user's Handler (mux.go 10-12), HandlerFunc (18-20), httpHandler (28-30),
\* which passes on r.Request alone and so has no continuation, and a *Mux
\* (mux.go 99-102), which dispatches over its own routes and calls no
\* continuation
ServeRoboHTTP(h, params, st, hr, beh) ==
    LET k == st.n + 1
        b == Behaviour(beh, k)
        entered == Logged([st EXCEPT !.n = k], "invoke", h.id, k, params)
        wrote == IF b.write
                 THEN Logged([entered EXCEPT !.sink = @ + 1], "write", h.id, k, NilParams)
                 ELSE entered
        ran == CASE h.kind = "httpHandler" -> wrote
                 [] h.kind = "Mux" ->
                        MuxLeave(h, k, params, entered,
                                 serveNext(MuxEnter(h, k, params, entered), hr, beh))
                 [] OTHER -> CallNext(b.nexts, h.id, k, wrote, hr, beh)
    IN  IF ran.panic /= "" THEN ran ELSE Logged(ran, "return", h.id, k, NilParams)

\* a match whose scope is chained to the scope of the route before
serveRouteChainsSelf(r, params, st, hr, beh) ==
    IF Len(r.handlers) = 0
    THEN [st EXCEPT !.panic = "slice bounds out of range"]
    ELSE IF params.nil
         THEN [st EXCEPT !.q.handlers = Tail(r.handlers),
                         !.q.self = params,
                         !.panic = "nil pointer dereference"]
         ELSE LET self == [params EXCEPT !.parent = st.q.self]
                  matched == [st EXCEPT !.q.handlers = Tail(r.handlers),
                                        !.q.self = self]
              IN  ServeRoboHTTP(Head(r.handlers), self, matched, hr, beh)

\* a match, mux.go 174-179: the queue takes the rest of the route's chain and
\* the match's scope, chained to the ambient parent; the first handler runs
serveRoute(r, params, st, hr, beh) ==
    IF Len(r.handlers) = 0
    THEN [st EXCEPT !.panic = "slice bounds out of range"]
    ELSE IF params.nil
         THEN [st EXCEPT !.q.handlers = Tail(r.handlers),
                         !.q.self = params,
                         !.panic = "nil pointer dereference"]
         ELSE LET self == [params EXCEPT !.parent = st.q.parent]
                  matched == [st EXCEPT !.q.handlers = Tail(r.handlers),
                                        !.q.self = self]
              IN  ServeRoboHTTP(Head(r.handlers), self, matched, hr, beh)

\* one turn of the loop of serveNext, mux.go 164-179, at a route whose Check
\* reports the match (true, params)
Matched(st, params, hr, beh) ==
    IF Len(st.q.routes) = 0
    THEN st
    ELSE serveRoute(Head(st.q.routes), params, [st EXCEPT !.q.routes = Tail(@)], hr, beh)

\* scanRoutes with the test of line 170 inverted
scanRoutesInverted(st, hr, beh) ==
    IF Len(st.q.routes) = 0
    THEN st
    ELSE LET r == Head(st.q.routes)
             popped == [st EXCEPT !.q.routes = Tail(@)]
             c == Check(r, hr.method, hr.path)
         IN  IF c.ok
             THEN scanRoutes(popped, hr, beh)
             ELSE serveRoute(r, c.params, popped, hr, beh)

\* scanRoutes returning, instead of continuing, at a route that does not match
scanRoutesStops(st, hr, beh) ==
    IF Len(st.q.routes) = 0
    THEN st
    ELSE LET r == Head(st.q.routes)
             popped == [st EXCEPT !.q.routes = Tail(@)]
             c == Check(r, hr.method, hr.path)
         IN  IF ~c.ok
             THEN popped
             ELSE serveRoute(r, c.params, popped, hr, beh)

\* the loop of serveNext, mux.go 164-181
scanRoutes(st, hr, beh) ==
    IF Len(st.q.routes) = 0
    THEN st
    ELSE LET r == Head(st.q.routes)
             popped == [st EXCEPT !.q.routes = Tail(@)]
             c == Check(r, hr.method, hr.path)
         IN  IF ~c.ok
             THEN scanRoutes(popped, hr, beh)
             ELSE serveRoute(r, c.params, popped, hr, beh)

\* serveNext taking the handler at the back of q.handlers
serveNextLast(st, hr, beh) ==
    IF Len(st.q.handlers) > 0
    THEN LET h == st.q.handlers[Len(st.q.handlers)]
             popped == [st EXCEPT !.q.handlers = SubSeq(@, 1, Len(@) - 1)]
         IN  ServeRoboHTTP(h, popped.q.self, popped, hr, beh)
    ELSE scanRoutes(st, hr, beh)

\* serveNext handing the ambient parent, not the route's scope, to a handler
serveNextAmbient(st, hr, beh) ==
    IF Len(st.q.handlers) > 0
    THEN LET h == Head(st.q.handlers)
             popped == [st EXCEPT !.q.handlers = Tail(@)]
         IN  ServeRoboHTTP(h, popped.q.parent, popped, hr, beh)
    ELSE scanRoutes(st, hr, beh)

\* serveNext without line 157: the handler it invokes stays queued
serveNextKeeps(st, hr, beh) ==
    IF Len(st.q.handlers) > 0
    THEN ServeRoboHTTP(Head(st.q.handlers), st.q.self, st, hr, beh)
    ELSE scanRoutes(st, hr, beh)

\* q.serveNext(w, hr), mux.go 153-182
serveNext(st, hr, beh) ==
    IF Len(st.q.handlers) > 0
    THEN LET h == Head(st.q.handlers)
             popped == [st EXCEPT !.q.handlers = Tail(@)]
         IN  ServeRoboHTTP(h, popped.q.self, popped, hr, beh)
    ELSE scanRoutes(st, hr, beh)

Dispatch(queue) == [q |-> queue, log |-> <<>>, n |-> 0, sink |-> 0, panic |-> ""]

\* m.ServeRoboHTTP(w, r), mux.go 99-102
MuxServeRoboHTTP(rs, params, hr, beh) ==
    serveNext(Dispatch(NewQueue(rs, params)), hr, beh)

\* m.ServeHTTP(w, r), mux.go 106-108: the Request carries no Params
MuxServeHTTP(rs, hr, beh) == MuxServeRoboHTTP(rs, NilParams, hr, beh)

(***************************************************************************)
(* The inputs the operations are run with.                                 *)
(***************************************************************************)
Reg(method, pattern, handlers) ==
    [method |-> method, pattern |-> pattern, handlers |-> handlers]
Req(method, path) == [method |-> method, path |-> path]

RECURSIVE Handlers(_)
\* how many handlers the routes rs hold
Handlers(rs) == IF rs = <<>> THEN 0 ELSE Len(Head(rs).handlers) + Handlers(Tail(rs))

\* the calls of Add: registrations that go through, and ones that abort
Registrations ==
    {Reg("GET", PatA, <<H1>>), Reg("GET", PatA, <<H2>>),
     Reg("GET", PatPX, <<H1>>), Reg("POST", PatPX, <<H1>>),
     Reg("GET", PatUsersId, <<H2, H1>>), Reg("GET", PathUsers42, <<H1>>),
     Reg("GET", PatFilesRest, <<H3, H4>>),
     Reg("GET", Empty, <<H1>>), Reg("GET", PatWildFirst, <<H1>>),
     Reg("GET", PatDupName, <<H1>>), Reg("GET", PatNoName, <<H1>>),
     Reg("GET", PatA, <<>>), Reg("GET", PatA, <<Bad>>),
     Reg("GET", PatA, <<H1, Bad>>), Reg("POST", PatPX, <<H3, Bad, H2>>)}

\* the requests served
Requests ==
    {Req("GET", PatA), Req("DELETE", PatP5), Req("GET", PatP5),
     Req("GET", PathUsers42), Req("GET", PathUsersSlash),
     Req("GET", PathFilesABC), Req("GET", PathFilesSlash)}

RECURSIVE Invocable(_, _, _)
\* how many handlers a dispatch of hr can invoke: those left of the current
\* route and those of the routes, of rs, that match
Invocable(n, rs, hr) ==
    IF rs = <<>>
    THEN n
    ELSE Invocable(
            IF Check(Head(rs), hr.method, hr.path).ok
            THEN n + Len(Head(rs).handlers) ELSE n,
            Tail(rs), hr)

\* what the handlers a dispatch can invoke may do, one entry for each
Behaviours(queue, hr) ==
    [1 .. Invocable(Len(queue.handlers), queue.routes, hr) ->
        [nexts : 0 .. MaxNextCalls, write : BOOLEAN]]

NoQueue == NewQueue(<<>>, NilParams)

(***************************************************************************)
(* The program: registrations and requests on one Mux, one after another.  *)
(***************************************************************************)
Init ==
    /\ routes = <<>>
    /\ call = "none"
    /\ args = <<>>
    /\ before = <<>>
    /\ panic = ""
    /\ q0 = NoQueue
    /\ q = NoQueue
    /\ log = <<>>
    /\ sink = 0
    /\ p = ZeroParams
    /\ inflight = <<>>

\* m.Add(method, pattern, handlers...)
Add(method, pattern, handlers) ==
    /\ Len(routes) < MaxRoutes
    /\ LET r == MuxAdd(routes, method, pattern, handlers)
       IN  /\ routes' = r.routes
           /\ panic' = r.panic
    /\ call' = "Add"
    /\ args' = [method |-> method, pattern |-> pattern, handlers |-> handlers]
    /\ before' = routes
    /\ q0' = NoQueue
    /\ q' = NoQueue
    /\ log' = <<>>
    /\ sink' = 0
    /\ UNCHANGED <<p, inflight>>

\* the dispatch st that started from queue, recorded
Served(name, hr, params, queue, st) ==
    /\ call' = name
    /\ args' = [method |-> hr.method, path |-> hr.path, params |-> params]
    /\ before' = routes
    /\ panic' = st.panic
    /\ q0' = queue
    /\ q' = st.q
    /\ log' = st.log
    /\ sink' = st.sink
    /\ UNCHANGED <<routes, p, inflight>>

\* m.ServeHTTP(w, r) for a request of the transport layer
ServeHTTP(hr) ==
    LET queue == NewQueue(routes, NilParams)
    IN  \E beh \in Behaviours(queue, hr) :
            Served("ServeHTTP", hr, NilParams, queue, MuxServeHTTP(routes, hr, beh))

\* m.ServeRoboHTTP(w, r) called with a Request whose Params is set
ServeRobo(hr) ==
    LET queue == NewQueue(routes, ZeroParams)
    IN  \E beh \in Behaviours(queue, hr) :
            Served("ServeRoboHTTP", hr, ZeroParams, queue,
                   MuxServeRoboHTTP(routes, ZeroParams, hr, beh))

Next ==
    \/ \E r \in Registrations : Add(r.method, r.pattern, r.handlers)
    \/ \E hr \in Requests : ServeHTTP(hr)
    \/ \E hr \in Requests : ServeRobo(hr)

Spec == Init /\ [][Next]_vars

(***************************************************************************)
(* queue.serveNext as a unit.  route.Check never reports a match, so no    *)
(* request to a Mux ever leaves a handler in q.handlers; every queue value *)
(* serveNext's first branch is written for is drawn here instead: the      *)
(* state lines 174-176 leave behind (the rest of a route's chain, its      *)
(* scope chained to the ambient parent), or a fresh queue.                 *)
(***************************************************************************)
RECURSIVE SeqsUpTo(_, _)
\* the sequences over S of length at most n
SeqsUpTo(S, n) ==
    IF n = 0
    THEN {<<>>}
    ELSE LET shorter == SeqsUpTo(S, n - 1)
         IN  shorter \cup {Append(x, e) : x \in shorter, e \in S}

QueuedHandlers == {Adapt(H1), Adapt(H2), Adapt(H3)}
QueuedRoutes ==
    {newRoute("GET", PatA, <<Adapt(H4)>>).route,
     newRoute("POST", PatPX, <<Adapt(H1), Adapt(H2)>>).route}
QueueRequests == {Req("GET", PatA), Req("DELETE", PatP5)}

Queues ==
    {[handlers |-> hs, routes |-> rs, parent |-> parent,
      self |-> IF hs = <<>> THEN NilParams
               ELSE [ZeroParams EXCEPT !.parent = parent]] :
        hs \in SeqsUpTo(QueuedHandlers, MaxQueued),
        rs \in SeqsUpTo(QueuedRoutes, MaxQueued),
        parent \in {NilParams, ZeroParams}}

QueueInit ==
    /\ q0 \in Queues
    /\ routes = q0.routes
    /\ call = "none"
    /\ args = <<>>
    /\ before = routes
    /\ panic = ""
    /\ q = q0
    /\ log = <<>>
    /\ sink = 0
    /\ p = ZeroParams
    /\ inflight = <<>>

\* q.serveNext(w, hr) on the queue drawn
QueueServeNext(hr) ==
    /\ call = "none"
    /\ \E beh \in Behaviours(q0, hr) :
            Served("serveNext", hr, q0.parent, q0, serveNext(Dispatch(q0), hr, beh))

QueueNext == \E hr \in QueueRequests : QueueServeNext(hr)

QueueSpec == QueueInit /\ [][QueueNext]_vars

(***************************************************************************)
(* Parameters as a unit: the scope chains that set and the parent link of  *)
(* serveNext (mux.go 176) build.                                           *)
(***************************************************************************)
Keys == {KeyId, KeyX}
Values == {Val42, Val5, Empty}

RECURSIVE Depth(_)
Depth(ps) == IF ps.nil THEN 0 ELSE 1 + Depth(ps.parent)

\* p.set(key, value) on the innermost scope
ParamSet(key, value) ==
    /\ p' = set(p, key, value)
    /\ UNCHANGED <<routes, call, args, before, panic, q0, q, log, sink, inflight>>

\* a new scope whose parent is the chain so far (q.self.parent = q.parent)
ParamChild ==
    /\ Depth(p) < MaxDepth
    /\ p' = [ZeroParams EXCEPT !.parent = p]
    /\ UNCHANGED <<routes, call, args, before, panic, q0, q, log, sink, inflight>>

ParamNext ==
    \/ \E key \in Keys, value \in Values : ParamSet(key, value)
    \/ ParamChild

ParamSpec == Init /\ [][ParamNext]_vars

(***************************************************************************)
(* The match branch of serveNext (mux.go 174-179) as a unit.  route.Check  *)
(* never reports a match, so these lines never run in a request to a Mux;  *)
(* here they run on the result (true, params) a matcher would report, on   *)
(* the queue of a Mux serving a request (MatchServe) and on the queue of a *)
(* Mux that an outer queue invoked as a handler (MatchInner).              *)
(***************************************************************************)
\* the routes of a Mux that is registered as a handler
InnerRoutes ==
    <<newRoute("GET", PatA, <<Adapt(H2), Adapt(H1)>>).route,
      newRoute("GET", PatPX, <<Adapt(H4)>>).route>>

\* a *Mux as a Handler: Add appends it as it is (mux.go 81-82)
InnerMux == [kind |-> "Mux", id |-> "mux", routes |-> InnerRoutes]

MatchRoutes ==
    {newRoute("GET", PatA, <<Adapt(H1), Adapt(H2)>>).route,
     newRoute("GET", PatA, <<Adapt(H2), InnerMux, Adapt(H1)>>).route}

\* the scopes a match reports: without bindings, with one, and one that
\* comes with a parent of its own
MatchScopes ==
    {ZeroParams, set(ZeroParams, KeyId, Val42),
     [set(ZeroParams, KeyX, Val5) EXCEPT !.parent = ZeroParams]}

\* the scope of the caller of the Mux
OuterScope == set(ZeroParams, KeyX, Val5)

\* queues between two routes: fresh (self is nil) or with the scope of the
\* route whose chain has been used up, and the queues of an outer dispatch
\* that is in the middle of a chain
MatchQueues ==
    {[handlers |-> hs, routes |-> rs, parent |-> parent, self |-> self] :
        hs \in SeqsUpTo({Adapt(H3)}, MaxQueued),
        rs \in SeqsUpTo(MatchRoutes, MaxQueued),
        parent \in {NilParams, OuterScope},
        self \in {NilParams, set(ZeroParams, KeyId, Val5)}}

MatchInit ==
    /\ q0 \in {[x EXCEPT !.self = IF @.nil THEN @ ELSE [@ EXCEPT !.parent = x.parent]] :
                    x \in MatchQueues}
    /\ routes = q0.routes
    /\ call = "none"
    /\ args = <<>>
    /\ before = routes
    /\ panic = ""
    /\ q = q0
    /\ log = <<>>
    /\ sink = 0
    /\ p = ZeroParams
    /\ inflight = <<>>

\* what the handlers of a chain of n handlers may do
MatchBehaviours(n) == [1 .. n -> [nexts : 0 .. MaxNextCalls, write : {FALSE}]]

\* serveNext on a queue with no handler left whose first route matches
MatchServe(hr, params) ==
    /\ call = "none"
    /\ q0.handlers = <<>>
    /\ q0.routes /= <<>>
    /\ \E beh \in MatchBehaviours(Len(Head(q0.routes).handlers)) :
            Served("MatchServe", hr, params, q0,
                   Matched(Dispatch(q0), params, hr, beh))

\* InnerMux.ServeRoboHTTP(w, r) with the Request of a handler of the queue
\* drawn, r.Params being that queue's scope; its first route matches
MatchInner(hr, params) ==
    /\ call = "none"
    /\ ~q0.self.nil
    /\ \E beh \in MatchBehaviours(Len(Head(InnerRoutes).handlers)) :
        LET outer == Dispatch(q0)
            inner == Matched(MuxEnter(InnerMux, 0, q0.self, outer), params, hr, beh)
        IN  Served("MatchInner", hr, params, q0,
                   MuxLeave(InnerMux, 0, q0.self, outer, inner))

MatchNext ==
    \/ \E hr \in QueueRequests, params \in MatchScopes : MatchServe(hr, params)
    \/ \E hr \in QueueRequests, params \in MatchScopes : MatchInner(hr, params)

MatchSpec == MatchInit /\ [][MatchNext]_vars

(***************************************************************************)
(* Two requests served at the same time on one Mux whose setup is over.    *)
(* Each request runs the code of the dispatch step by step, on its own     *)
(* queue q (the local variable of ServeRoboHTTP, mux.go 100); a step is a  *)
(* turn of the loop of serveNext or one thing a handler does.  The stack   *)
(* of a request holds what it is in the middle of: "scan" a serveNext,     *)
(* "handler" a handler with the continuation calls it still makes, "next"  *)
(* a Request.Next waiting for its serveNext.  The handlers of the registry *)
(* are user handlers and http handlers.                                    *)
(***************************************************************************)
Frame(f, h, k, left, write) == [f |-> f, h |-> h, k |-> k, left |-> left, write |-> write]
ScanFrame == Frame("scan", "", 0, 0, FALSE)

\* h.ServeRoboHTTP(w, &Request{hr, params, q}) begins: the serveNext that
\* calls it returns when it does (mux.go 160-161, 178-179)
Enter(h, params, d, rest, beh) ==
    LET k == d.n + 1
        b == Behaviour(beh, k)
        left == IF h.kind = "httpHandler" THEN 0 ELSE b.nexts
    IN  Logged([d EXCEPT !.n = k,
                         !.stack = Append(rest, Frame("handler", h.id, k, left, b.write))],
               "invoke", h.id, k, params)

\* the next step of the dispatch d of the request hr
StepOf(d, hr, beh) ==
    LET top == d.stack[Len(d.stack)]
        rest == SubSeq(d.stack, 1, Len(d.stack) - 1)
    IN  CASE top.f = "scan" ->
                IF Len(d.q.handlers) > 0
                THEN LET popped == [d EXCEPT !.q.handlers = Tail(@)]
                     IN  Enter(Head(d.q.handlers), popped.q.self, popped, rest, beh)
                ELSE IF Len(d.q.routes) = 0
                THEN [d EXCEPT !.stack = rest]
                ELSE LET r == Head(d.q.routes)
                         popped == [d EXCEPT !.q.routes = Tail(@)]
                         c == Check(r, hr.method, hr.path)
                     IN  IF ~c.ok
                         THEN popped
                         ELSE IF Len(r.handlers) = 0
                         THEN [popped EXCEPT !.panic = "slice bounds out of range",
                                             !.stack = <<>>]
                         ELSE IF c.params.nil
                         THEN [popped EXCEPT !.q.handlers = Tail(r.handlers),
                                             !.q.self = c.params,
                                             !.panic = "nil pointer dereference",
                                             !.stack = <<>>]
                         ELSE LET self == [c.params EXCEPT !.parent = d.q.parent]
                                  matched == [popped EXCEPT !.q.handlers = Tail(r.handlers),
                                                            !.q.self = self]
                              IN  Enter(Head(r.handlers), self, matched, rest, beh)
          [] top.f = "handler" ->
                IF top.write
                THEN Logged([d EXCEPT !.sink = @ + 1,
                                      !.stack = Append(rest, [top EXCEPT !.write = FALSE])],
                            "write", top.h, top.k, NilParams)
                ELSE IF top.left > 0
                THEN Logged([d EXCEPT !.stack = rest \o
                                <<[top EXCEPT !.left = @ - 1],
                                  Frame("next", top.h, top.k, 0, FALSE), ScanFrame>>],
                            "next", top.h, top.k, NilParams)
                ELSE Logged([d EXCEPT !.stack = rest], "return", top.h, top.k, NilParams)
          [] OTHER ->
                Logged([d EXCEPT !.stack = rest], "nextret", top.h, top.k, NilParams)

\* q.serveNext(w, hr) is called on the queue
Begin(queue) ==
    [q |-> queue, log |-> <<>>, n |-> 0, sink |-> 0, panic |-> "",
     stack |-> <<ScanFrame>>]

\* the registry the setup left
ConcRoutes ==
    <<newRoute("GET", PatA, <<Adapt(H1), Adapt(H2)>>).route,
      newRoute("POST", PatPX, <<Adapt(H3)>>).route>>

\* a request that has not started, and one in the chain of the first route
Waiting(hr, beh) ==
    [hr |-> hr, beh |-> beh, started |-> FALSE, steps |-> 0,
     q0 |-> NoQueue, d |-> [Begin(NoQueue) EXCEPT !.stack = <<>>]]
Running(hr, beh, queue) ==
    [hr |-> hr, beh |-> beh, started |-> TRUE, steps |-> 0,
     q0 |-> queue, d |-> Begin(queue)]

\* every handler of a request making the same number of continuation calls
ConcBehaviours ==
    {[k \in 1 .. Handlers(ConcRoutes) |-> [nexts |-> c, write |-> w]] :
        c \in 0 .. MaxNextCalls, w \in BOOLEAN}

ConcRequests(hr) ==
    {Waiting(hr, beh) : beh \in ConcBehaviours}
    \cup {Running(hr, beh,
                  [handlers |-> Head(ConcRoutes).handlers, routes |-> Tail(ConcRoutes),
                   parent |-> NilParams, self |-> ZeroParams]) :
            beh \in ConcBehaviours}

ConcInit ==
    /\ routes = ConcRoutes
    /\ call = "none"
    /\ args = <<>>
    /\ before = routes
    /\ panic = ""
    /\ q0 = NoQueue
    /\ q = NoQueue
    /\ log = <<>>
    /\ sink = 0
    /\ p = ZeroParams
    /\ inflight \in {<<a, b>> : a \in ConcRequests(Req("GET", PatA)),
                                b \in ConcRequests(Req("POST", PatP5))}

\* m.ServeHTTP(w, r) is called for request i: q := queue{nil, m.routes,
\* r.Params, nil} and the call of q.serveNext, mux.go 100-101
ConcStart(i) ==
    /\ ~inflight[i].started
    /\ inflight' = [inflight EXCEPT ![i].started = TRUE,
                                    ![i].q0 = NewQueue(routes, NilParams),
                                    ![i].d = Begin(NewQueue(routes, NilParams))]
    /\ call' = "ConcStart"
    /\ args' = [request |-> i]
    /\ UNCHANGED <<routes, before, panic, q0, q, log, sink, p>>

\* a step of request i made on the queue of request 1
ConcStepShared(i) ==
    /\ inflight[i].started
    /\ inflight[i].d.stack /= <<>>
    /\ LET d == StepOf([inflight[i].d EXCEPT !.q = inflight[1].d.q],
                       inflight[i].hr, inflight[i].beh)
       IN  inflight' = [[inflight EXCEPT ![i].d = d, ![i].steps = @ + 1]
                            EXCEPT ![1].d.q = d.q]
    /\ call' = "ConcStep"
    /\ args' = [request |-> i]
    /\ UNCHANGED <<routes, before, panic, q0, q, log, sink, p>>

\* a step of request i
ConcStep(i) ==
    /\ inflight[i].started
    /\ inflight[i].d.stack /= <<>>
    /\ inflight' = [inflight EXCEPT
                        ![i].d = StepOf(@, inflight[i].hr, inflight[i].beh),
                        ![i].steps = @ + 1]
    /\ call' = "ConcStep"
    /\ args' = [request |-> i]
    /\ UNCHANGED <<routes, before, panic, q0, q, log, sink, p>>

ConcNext ==
    \/ \E i \in DOMAIN inflight : ConcStart(i)
    \/ \E i \in DOMAIN inflight : ConcStep(i)

ConcSpec == ConcInit /\ [][ConcNext]_vars

(***************************************************************************)
(* The matcher the specification describes (sections 4.1 and 4.2), which   *)
(* the source leaves as a stub: what "a route matches a request" and "a    *)
(* well-formed pattern" mean in the claims.                                *)
(***************************************************************************)
RECURSIVE SpecSplit(_)
\* the pieces of s between its '/' characters
SpecSplit(s) ==
    IF s = <<>>
    THEN << <<>> >>
    ELSE LET rest == SpecSplit(Tail(s))
         IN  IF Head(s) = "/"
             THEN << <<>> >> \o rest
             ELSE << <<Head(s)>> \o Head(rest) >> \o Tail(rest)

\* the segments of a pattern: its non-empty pieces
SpecSegments(pattern) == SelectSeq(SpecSplit(pattern), LAMBDA x : x /= <<>>)

\* the segments of a request path: the pieces after its leading '/'
SpecPathSegments(path) ==
    IF path /= <<>> /\ Head(path) = "/"
    THEN Tail(SpecSplit(path))
    ELSE SpecSplit(path)

SpecKind(seg) ==
    CASE Head(seg) = ":" -> "Param"
      [] Head(seg) = "*" -> "Wildcard"
      [] OTHER -> "Literal"

\* section 4.1: the pattern compiles
SpecWellFormed(pattern) ==
    LET segs == SpecSegments(pattern)
        capturing == {i \in DOMAIN segs : SpecKind(segs[i]) /= "Literal"}
    IN  /\ pattern /= <<>>
        /\ \A i \in DOMAIN segs : SpecKind(segs[i]) = "Wildcard" => i = Len(segs)
        /\ \A i \in capturing : Tail(segs[i]) /= <<>>
        /\ \A i, j \in capturing : Tail(segs[i]) = Tail(segs[j]) => i = j

RECURSIVE SpecJoin(_)
SpecJoin(segs) ==
    IF segs = <<>> THEN <<>>
    ELSE IF Len(segs) = 1 THEN Head(segs)
    ELSE Head(segs) \o <<"/">> \o SpecJoin(Tail(segs))

RECURSIVE SpecWalk(_, _, _)
\* section 4.2, rules 2 and 3: pattern segments and path segments in lockstep
SpecWalk(segs, path, scope) ==
    IF segs = <<>>
    THEN [ok |-> path = <<>>, params |-> scope]
    ELSE IF SpecKind(Head(segs)) = "Wildcard"
    THEN [ok |-> TRUE, params |-> set(scope, Tail(Head(segs)), SpecJoin(path))]
    ELSE IF path = <<>>
    THEN [ok |-> FALSE, params |-> scope]
    ELSE IF SpecKind(Head(segs)) = "Param"
    THEN IF Head(path) = <<>>
         THEN [ok |-> FALSE, params |-> scope]
         ELSE SpecWalk(Tail(segs), Tail(path),
                       set(scope, Tail(Head(segs)), Head(path)))
    ELSE IF Head(segs) = Head(path)
         THEN SpecWalk(Tail(segs), Tail(path), scope)
         ELSE [ok |-> FALSE, params |-> scope]

\* section 4.2: whether route r matches, and the scope of the match
SpecMatch(r, method, path) ==
    IF r.method = method /\ SpecWellFormed(r.pattern)
    THEN SpecWalk(SpecSegments(r.pattern), SpecPathSegments(path), ZeroParams)
    ELSE [ok |-> FALSE, params |-> ZeroParams]

(***************************************************************************)
(* Reading the record of a dispatch.                                       *)
(***************************************************************************)
Dispatched == call \in {"ServeHTTP", "ServeRoboHTTP", "serveNext"}

\* the positions of the log where a handler was invoked, in order
Invokes == SelectSeq([i \in DOMAIN log |-> i], LAMBDA i : log[i].ev = "invoke")
Invoked == [k \in DOMAIN Invokes |-> log[Invokes[k]].h]

\* the positions where invocation k called the continuation
NextCallsOf(k) == {j \in DOMAIN log : log[j].ev = "next" /\ log[j].k = k}

IsPrefix(s, t) == Len(s) <= Len(t) /\ SubSeq(t, 1, Len(s)) = s

RouteA1 == newRoute("GET", PatA, <<Adapt(H1)>>).route
RouteA2 == newRoute("GET", PatA, <<Adapt(H2)>>).route

\* C1 (as claimed): with (GET, /a, h1) and (GET, /a, h2) registered in that
\* order, serving GET /a invokes h1 first; h2 runs exactly if h1 calls the
\* continuation, and then after h1 was invoked and before h1 returns.
C1_TwoRoutesChain ==
    (/\ call = "ServeHTTP"
     /\ before = <<RouteA1, RouteA2>>
     /\ args.method = "GET"
     /\ args.path = PatA)
    => /\ Len(log) > 0
       /\ log[1].ev = "invoke"
       /\ log[1].h = "h1"
       /\ LET h1returns == {j \in DOMAIN log : log[j].ev = "return" /\ log[j].h = "h1"}
              h2runs == {j \in DOMAIN log : log[j].ev = "invoke" /\ log[j].h = "h2"}
              h1nexts == {j \in DOMAIN log : log[j].ev = "next" /\ log[j].h = "h1"}
          IN  /\ h1nexts /= {} => h2runs /= {}
              /\ h1nexts = {} => h2runs = {}
              /\ \A j \in h2runs : \A e \in h1returns : 1 < j /\ j < e

\* the routes, by position in the registry the dispatch started from, that
\* match the request in the specification's sense
SpecMatching ==
    {i \in DOMAIN before : SpecMatch(before[i], args.method, args.path).ok}

\* C2 (as claimed): when two or more routes match the request, the first
\* handler serve invokes is the first handler of the earliest-registered
\* matching route.
C2_EarliestMatchFirst ==
    (call \in {"ServeHTTP", "ServeRoboHTTP"} /\ Cardinality(SpecMatching) >= 2)
    => /\ Len(log) > 0
       /\ log[1].ev = "invoke"
       /\ \E i \in SpecMatching :
            /\ \A j \in SpecMatching : i <= j
            /\ log[1].h = Head(before[i].handlers).id

RECURSIVE MatchingChain(_, _)
\* the handlers, by id, of the routes of rs that Check matches with hr
MatchingChain(rs, hr) ==
    IF rs = <<>>
    THEN <<>>
    ELSE (IF Check(Head(rs), hr.method, hr.path).ok
          THEN [i \in DOMAIN Head(rs).handlers |-> Head(rs).handlers[i].id]
          ELSE <<>>) \o MatchingChain(Tail(rs), hr)

\* what a dispatch from queue may invoke, in order
Expected(queue, hr) ==
    [i \in DOMAIN queue.handlers |-> queue.handlers[i].id]
        \o MatchingChain(queue.routes, hr)

\* C3: within one request, whatever continuation calls the handlers make,
\* the handlers invoked are, in order, a prefix of the rest of the current
\* route's chain followed by the chains of the routes that match, in
\* registration order.
C3_InvocationsArePrefix ==
    Dispatched => IsPrefix(Invoked, Expected(q0, args))

C3_Witness ==
    /\ call = "serveNext"
    /\ panic = ""
    /\ Len(Invokes) >= 2
    /\ q0.routes /= <<>>
    /\ \E k \in DOMAIN Invokes : Cardinality(NextCallsOf(k)) >= 2
    /\ \E k \in DOMAIN Invokes : NextCallsOf(k) = {}

\* C4: when no registered route matches the request, serve discards every
\* route, invokes no handler, writes nothing, raises no failure and returns.
C4_NoMatchNoHandler ==
    (/\ call \in {"ServeHTTP", "ServeRoboHTTP"}
     /\ \A i \in DOMAIN before : ~Check(before[i], args.method, args.path).ok)
    => /\ log = <<>>
       /\ sink = 0
       /\ panic = ""
       /\ q.routes = <<>>
       /\ q.handlers = <<>>

C4_Witness ==
    /\ call = "ServeHTTP"
    /\ before = <<newRoute("GET", PatPX, <<Adapt(H1)>>).route,
                  newRoute("POST", PatPX, <<Adapt(H1)>>).route>>
    /\ args.method = "DELETE"
    /\ args.path = PatP5
    /\ q0.routes = before
    /\ q.routes = <<>>
    /\ log = <<>>

\* a queue with no handler left and no route left that matches
Exhausted(queue, hr) ==
    /\ queue.handlers = <<>>
    /\ \A i \in DOMAIN queue.routes :
            ~Check(queue.routes[i], hr.method, hr.path).ok

\* C5: a continuation call on a queue with no remaining handlers and no
\* remaining matching routes returns at once, whenever it is made: nothing
\* is invoked or written in between, nothing fails, and the queue is left
\* with no handlers and no routes.
C5_NextOnExhaustedIsNoop ==
    \A i \in DOMAIN log :
        (log[i].ev = "next" /\ Exhausted(log[i].q, args))
        => /\ i < Len(log)
           /\ log[i + 1].ev = "nextret"
           /\ log[i + 1].k = log[i].k
           /\ log[i + 1].q.handlers = <<>>
           /\ log[i + 1].q.routes = <<>>
           /\ panic = ""

C5_Witness ==
    /\ call = "serveNext"
    /\ \E i, j \in DOMAIN log :
        /\ i < j
        /\ log[i].ev = "next" /\ log[j].ev = "next"
        /\ log[i].k = log[j].k
        /\ Exhausted(log[i].q, args) /\ log[i].q.routes /= <<>>
        /\ Exhausted(log[j].q, args) /\ log[j].q.routes = <<>>
        /\ sink > 0

\* C6 (as claimed): a route with pattern /users/:id matches /users/42 for its
\* method, and the scope's get("id") is "42"; it does not match /users/.
C6_UsersIdMatches ==
    \A i \in DOMAIN routes :
        routes[i].pattern = PatUsersId
        => /\ Check(routes[i], routes[i].method, PathUsers42).ok
           /\ Get(Check(routes[i], routes[i].method, PathUsers42).params, KeyId) = Val42
           /\ ~Check(routes[i], routes[i].method, PathUsersSlash).ok

\* C7 (as claimed): a route with pattern /files/*rest matches /files/a/b/c
\* with get("rest") = "a/b/c", and /files/ with get("rest") = "".
C7_FilesRestMatches ==
    \A i \in DOMAIN routes :
        routes[i].pattern = PatFilesRest
        => /\ Check(routes[i], routes[i].method, PathFilesABC).ok
           /\ Get(Check(routes[i], routes[i].method, PathFilesABC).params, KeyRest) = ValABC
           /\ Check(routes[i], routes[i].method, PathFilesSlash).ok
           /\ Get(Check(routes[i], routes[i].method, PathFilesSlash).params, KeyRest) = Empty

\* the scope itself binds key
Binds(ps, key) == ps.values.made /\ key \in DOMAIN ps.values.kv

\* C8 (as claimed): get(name) on a child scope is the child's own binding
\* whenever the child binds the name, and the parent's value when it does not.
C8_ChildBindingShadows ==
    ~p.parent.nil
    => \A key \in Keys :
        /\ Binds(p, key) => Get(p, key) = p.values.kv[key]
        /\ ~Binds(p, key) => Get(p, key) = Get(p.parent, key)

\* C8 (amended): get(name) on a child scope is the child's own binding
\* whenever that binding is not the empty string, and the parent's
\* get(name) when the child does not bind the name or binds it to "".
C8_NonEmptyChildBindingShadows ==
    ~p.parent.nil
    => \A key \in Keys :
        /\ (Binds(p, key) /\ p.values.kv[key] /= Empty)
            => Get(p, key) = p.values.kv[key]
        /\ (~Binds(p, key) \/ p.values.kv[key] = Empty)
            => Get(p, key) = Get(p.parent, key)

C8_Witness ==
    /\ ~p.parent.nil
    /\ Binds(p, KeyX) /\ Binds(p.parent, KeyX)
    /\ p.values.kv[KeyX] = Val5 /\ p.parent.values.kv[KeyX] = Val42
    /\ Get(p, KeyX) = Val5
    /\ ~Binds(p, KeyId) /\ Get(p, KeyId) = Val42

\* C9: Add with no handlers, or with an argument of no recognised shape at
\* any position, aborts and leaves the route list as it was.
C9_AbortedAddLeavesRoutes ==
    (/\ call = "Add"
     /\ \/ args.handlers = <<>>
        \/ \E i \in DOMAIN args.handlers : args.handlers[i].shape \notin ValidShapes)
    => /\ panic /= ""
       /\ routes = before

C9_Witness ==
    /\ call = "Add"
    /\ args.handlers = <<H3, Bad, H2>>
    /\ before /= <<>>
    /\ panic = "not a valid handler"
    /\ routes = before

\* C10 (as claimed): a pattern with a syntax error aborts the registration,
\* so every route in the registry has a well-formed pattern.
C10_RoutesWellFormed ==
    \A i \in DOMAIN routes : SpecWellFormed(routes[i].pattern)

RECURSIVE Chain(_)
\* the scopes of a chain, innermost first
Chain(ps) == IF ps.nil THEN <<>> ELSE <<ps>> \o Chain(ps.parent)

\* the scopes of the chain of ps, by position, that bind key to a non-empty string
Holding(ps, key) ==
    {i \in DOMAIN Chain(ps) :
        Binds(Chain(ps)[i], key) /\ Chain(ps)[i].values.kv[key] /= Empty}

\* C13: get(name) is the value of the innermost scope of the chain that binds
\* name to a non-empty string, and "" when there is none; a scope binding
\* name to "" yields what its parent yields.
C13_GetSkipsEmptyBindings ==
    \A key \in Keys :
        /\ Holding(p, key) = {} => Get(p, key) = Empty
        /\ \A i \in Holding(p, key) :
            (\A j \in Holding(p, key) : i <= j)
            => Get(p, key) = Chain(p)[i].values.kv[key]

C13_Witness ==
    /\ ~p.parent.nil
    /\ Binds(p, KeyX) /\ p.values.kv[KeyX] = Empty
    /\ Binds(p.parent, KeyX) /\ p.parent.values.kv[KeyX] = Val5
    /\ Get(p, KeyX) = Val5
    /\ Get(p, KeyId) = Empty

\* C16: a successful Add appends exactly one route, with the handlers in
\* argument order, behind the routes there were, which stay as they are;
\* serving a request leaves the registry unchanged, and every dispatch starts
\* from the whole registry.
C16_RegistryAppendOnly ==
    /\ (call = "Add" /\ panic = "")
        => routes = Append(before,
                [method |-> args.method, pattern |-> args.pattern,
                 handlers |-> [i \in DOMAIN args.handlers |->
                                    Adapt(args.handlers[i])]])
    /\ call \in {"ServeHTTP", "ServeRoboHTTP"}
        => /\ routes = before
           /\ q0.routes = routes

C16_Witness ==
    /\ call = "Add"
    /\ panic = ""
    /\ Len(before) = 1
    /\ before[1] = newRoute("GET", PatA, <<Adapt(H1)>>).route
    /\ args.handlers = <<H2, H1>>
    /\ routes[2].handlers = <<Adapt(H2), Adapt(H1)>>

\* C17: after any Add calls, aborted ones included, every route of the
\* registry has at least one handler, so the match step (mux.go 174-179) run
\* on any of them finds its first handler and the rest of its chain, and
\* leaves no handler queued when the route has one handler only.
C17_ChainsNonEmpty ==
    \A i \in DOMAIN routes :
        /\ Len(routes[i].handlers) >= 1
        /\ LET st == serveRoute(routes[i], ZeroParams, Dispatch(NoQueue),
                                Req(routes[i].method, routes[i].pattern), <<>>)
           IN  /\ st.panic = ""
               /\ st.log[1].ev = "invoke"
               /\ st.log[1].h = routes[i].handlers[1].id
               /\ Len(st.q.handlers) = Len(routes[i].handlers) - 1

C17_Witness ==
    /\ call = "Add"
    /\ panic = "no handlers provided"
    /\ Len(routes) = 1
    /\ Len(routes[1].handlers) = 1
    /\ serveRoute(routes[1], ZeroParams, Dispatch(NoQueue),
                  Req("GET", PatA), <<>>).q.handlers = <<>>

RECURSIVE Nested(_, _)
\* the log from position i on is well nested, given the stack of what is
\* running: <<"h", k>> a handler invocation, <<"n", k>> a continuation call
\* of it, <<"s", k>> the dispatch of a Mux that is the handler
Nested(i, stack) ==
    IF i > Len(log)
    THEN panic /= "" \/ stack = <<>>
    ELSE LET e == log[i]
             top == IF stack = <<>> THEN <<"none", 0>> ELSE stack[Len(stack)]
             pop == SubSeq(stack, 1, Len(stack) - 1)
         IN  CASE e.ev = "invoke" ->
                    /\ top[1] \in {"none", "n", "s"}
                    /\ Nested(i + 1, Append(stack, <<"h", e.k>>))
               [] e.ev = "write" ->
                    top = <<"h", e.k>> /\ Nested(i + 1, stack)
               [] e.ev = "next" ->
                    top = <<"h", e.k>> /\ Nested(i + 1, Append(stack, <<"n", e.k>>))
               [] e.ev = "nextret" ->
                    top = <<"n", e.k>> /\ Nested(i + 1, pop)
               [] e.ev = "serve" ->
                    top = <<"h", e.k>> /\ Nested(i + 1, Append(stack, <<"s", e.k>>))
               [] e.ev = "served" ->
                    top = <<"s", e.k>> /\ Nested(i + 1, pop)
               [] e.ev = "return" ->
                    top = <<"h", e.k>> /\ Nested(i + 1, pop)
               [] OTHER -> FALSE

\* where invocation k starts and where it returns
InvokeOf(k) == CHOOSE i \in DOMAIN log : log[i].ev = "invoke" /\ log[i].k = k
ReturnOf(k) == CHOOSE i \in DOMAIN log : log[i].ev = "return" /\ log[i].k = k

\* C12: a continuation call returns to the handler that made it only after
\* the handler it started, and all that one started, has returned: the
\* handlers return in the reverse order of their nested invocations, and
\* the dispatch returns only when every handler it invoked has returned.
C12_ContinuationIsNestedCall ==
    Dispatched => Nested(1, <<>>)

C12_Witness ==
    /\ call = "serveNext"
    /\ panic = ""
    /\ Len(Invokes) >= 2
    /\ InvokeOf(1) < InvokeOf(2)
    /\ ReturnOf(2) < ReturnOf(1)
    /\ \E j \in NextCallsOf(1) : ReturnOf(2) < j
    /\ NextCallsOf(2) /= {}

\* what a queue still holds
Size(queue) == Len(queue.handlers) + Len(queue.routes)

\* C18: the dispatch returns; each advance (the first and every continuation
\* call) invokes at most one handler itself and leaves the queue strictly
\* smaller unless it has nothing left; so no handler occurrence is invoked
\* twice and the invocations are at most the handlers there are.
C18_SinglePass ==
    Dispatched =>
        /\ panic = ""
        /\ \A k \in DOMAIN Invokes :
                \E j \in DOMAIN log : log[j].ev = "return" /\ log[j].k = log[Invokes[k]].k
        /\ IF log = <<>> THEN Size(q) = 0 ELSE Size(log[1].q) < Size(q0)
        /\ \A i \in DOMAIN log :
            log[i].ev = "next" =>
                /\ i < Len(log)
                /\ log[i + 1].ev \in {"invoke", "nextret"}
                /\ log[i + 1].ev = "nextret" => Size(log[i + 1].q) = 0
                /\ log[i + 1].ev = "invoke" =>
                    /\ Size(log[i + 1].q) < Size(log[i].q)
                    /\ ReturnOf(log[i + 1].k) < Len(log)
                    /\ log[ReturnOf(log[i + 1].k) + 1].ev = "nextret"
                    /\ log[ReturnOf(log[i + 1].k) + 1].k = log[i].k
        /\ \A k \in DOMAIN Invokes :
            k > 1 => Size(log[Invokes[k]].q) < Size(log[Invokes[k - 1]].q)
        /\ Len(Invokes) <= Len(q0.handlers) + Handlers(q0.routes)

C18_Witness ==
    /\ call = "serveNext"
    /\ panic = ""
    /\ Len(q0.handlers) = 2
    /\ q0.routes /= <<>>
    /\ Len(Invokes) = 2
    /\ Size(q) = 0
    /\ \E i \in DOMAIN log : log[i].ev = "next" /\ Size(log[i].q) = 0

\* the dispatches of MatchSpec that returned
MatchedCall == call \in {"MatchServe", "MatchInner"} /\ panic = ""

\* the Mux dispatches, of a Mux that is a handler, running at position i of
\* the log: where each began
Opened(i) ==
    {s \in 1 .. i : log[s].ev = "serve" /\ \A m \in s .. i : log[m].ev /= "served"}

\* the ambient parent of the queue at work at position i: that of the queue
\* the dispatch started from, or the scope handed to the Mux that is a handler
Ambient(i) ==
    IF Opened(i) = {}
    THEN q0.parent
    ELSE log[CHOOSE s \in Opened(i) : TRUE].params

\* C14: the ambient parent of a queue is the one it was created with (that
\* of the dispatch, or the caller's scope for a Mux invoked as a handler)
\* and never changes; every scope a queue passes to a handler has exactly
\* that ambient parent as its parent, also when the queue already held the
\* scope of an earlier route and when the match came with a parent.
C14_ScopesChainToAmbientParent ==
    MatchedCall =>
        /\ q.parent = q0.parent
        /\ \A i \in DOMAIN log :
            /\ log[i].q.parent = Ambient(i)
            /\ log[i].ev = "invoke" =>
                /\ ~log[i].params.nil
                /\ log[i].params.parent = Ambient(i)
                /\ log[i].params.values = args.params.values

C14_Witness ==
    /\ call = "MatchServe"
    /\ panic = ""
    /\ ~q0.self.nil
    /\ q0.parent = OuterScope
    /\ q0.self /= q0.parent
    /\ ~args.params.parent.nil
    /\ Len(Invokes) >= 2
    /\ \A k \in DOMAIN Invokes : log[Invokes[k]].params.parent = OuterScope
    /\ \E i \in DOMAIN log : log[i].ev = "serve" /\ log[i].q.parent = q.self

\* the events of the queue whose route matched
InMatched(i) ==
    IF call = "MatchServe"
    THEN Opened(i) = {}
    ELSE Opened(i) /= {} /\ log[i].ev /= "serve"

\* the scope of the match: what Check reported, under the ambient parent
MatchScope ==
    [args.params EXCEPT !.parent = IF call = "MatchInner" THEN q0.self ELSE q0.parent]

\* C15: every handler of the matched route's chain that is invoked receives
\* the one scope of that match, which stays the queue's scope while the chain
\* runs and after a continuation call ran past the last route; it replaced
\* the scope of the route before only with no handler of that route left;
\* the match of a Mux invoked as a handler leaves its caller's scope alone.
C15_OneScopePerMatch ==
    MatchedCall =>
        /\ \A i \in DOMAIN log :
            InMatched(i) =>
                /\ log[i].q.self = MatchScope
                /\ log[i].ev = "invoke" => log[i].params = MatchScope
        /\ call = "MatchServe" => q0.handlers = <<>> /\ q.self = MatchScope
        /\ call = "MatchInner" => q.self = q0.self

C15_Witness ==
    /\ call = "MatchServe"
    /\ panic = ""
    /\ ~q0.self.nil
    /\ q0.self /= MatchScope
    /\ Len(q0.routes) = 2
    /\ q.routes = <<>>
    /\ Len(Invokes) = 3
    /\ \A k \in DOMAIN Invokes : log[Invokes[k]].params = MatchScope
    /\ q.self = MatchScope

IsSuffix(a, b) == Len(a) <= Len(b) /\ a = SubSeq(b, Len(b) - Len(a) + 1, Len(b))

\* where the Mux dispatch that began at position s of the log returned
ServedOf(s) ==
    CHOOSE j \in s .. Len(log) : log[j].ev = "served" /\ log[j].k = log[s].k

\* the handlers invoked at the positions s .. j of the log
RECURSIVE InvokedIn(_, _)
InvokedIn(s, j) ==
    IF s > j
    THEN <<>>
    ELSE (IF log[s].ev = "invoke" THEN <<log[s].h>> ELSE <<>>) \o InvokedIn(s + 1, j)

\* C19: the dispatch of a Mux that is a handler runs on a queue of its own:
\* the handlers it invokes are handlers of its own first matching route, and
\* their continuation calls advance that queue alone; when it has nothing
\* left the Mux returns to its caller, whose queue is as it was, and the
\* caller's remaining handlers and routes are not touched.
C19_ContinuationStaysInItsQueue ==
    MatchedCall =>
        /\ call = "MatchInner" => q = q0 /\ log /= <<>> /\ log[1].ev = "serve"
        /\ \A s \in DOMAIN log :
            log[s].ev = "serve" =>
                /\ \E j \in s .. Len(log) : log[j].ev = "served" /\ log[j].k = log[s].k
                /\ log[s].q = NewQueue(InnerRoutes, log[s].params)
                /\ \A m \in s .. ServedOf(s) - 1 :
                    /\ log[m].q.parent = log[s].params
                    /\ IsSuffix(log[m].q.routes, InnerRoutes)
                /\ IsPrefix(InvokedIn(s, ServedOf(s)),
                            IF call = "MatchInner"
                            THEN [i \in DOMAIN Head(InnerRoutes).handlers |->
                                    Head(InnerRoutes).handlers[i].id]
                            ELSE <<>>)
                /\ log[ServedOf(s)].q = IF s = 1 THEN q0 ELSE log[s - 1].q
                /\ ServedOf(s) < Len(log) =>
                    /\ log[ServedOf(s) + 1].ev = "return"
                    /\ log[ServedOf(s) + 1].k = log[s].k

C19_Witness ==
    /\ call = "MatchInner"
    /\ panic = ""
    /\ q0.handlers /= <<>>
    /\ q0.routes /= <<>>
    /\ q = q0
    /\ Len(Invokes) = Len(Head(InnerRoutes).handlers)
    /\ \E i \in DOMAIN log :
        /\ log[i].ev = "next"
        /\ Size(log[i].q) = 0
        /\ log[i + 1].ev = "nextret"
    /\ log[Len(log)].ev = "served"

RECURSIVE Alone(_, _)
\* the dispatch of the request x after n steps, when nothing else runs
Alone(x, n) ==
    IF n = 0 THEN Begin(x.q0) ELSE StepOf(Alone(x, n - 1), x.hr, x.beh)

\* a dispatch without its stack
Outcome(d) == [q |-> d.q, log |-> d.log, n |-> d.n, sink |-> d.sink, panic |-> d.panic]

\* C11: under every interleaving of the steps of two requests on one Mux,
\* each request is where its own steps alone take it: its queue, the
\* handlers invoked and the scopes passed are those of the request served
\* alone, its queue holds what is left of the registry for this request
\* only, and the registry is as the setup left it.
C11_RequestsDoNotShareDispatchState ==
    /\ inflight /= <<>> => routes = ConcRoutes
    /\ \A i \in DOMAIN inflight :
        inflight[i].started =>
            /\ inflight[i].d = Alone(inflight[i], inflight[i].steps)
            /\ IsSuffix(inflight[i].d.q.routes, routes)
            /\ inflight[i].d.stack = <<>> =>
                Outcome(inflight[i].d) =
                    serveNext(Dispatch(inflight[i].q0), inflight[i].hr, inflight[i].beh)

C11_Witness ==
    /\ inflight /= <<>>
    /\ inflight[1].started /\ inflight[2].started
    /\ inflight[1].q0.handlers /= <<>>
    /\ inflight[2].q0 = NewQueue(routes, NilParams)
    /\ inflight[1].d.stack /= <<>>
    /\ inflight[2].d.stack /= <<>>
    /\ inflight[1].d.n = 1
    /\ \E e \in DOMAIN inflight[1].d.log : inflight[1].d.log[e].ev = "next"
    /\ inflight[1].d.q.handlers = Tail(inflight[1].q0.handlers)
    /\ inflight[1].d.q.routes = inflight[1].q0.routes
    /\ inflight[2].steps = Len(routes)
    /\ inflight[2].d.q.routes = <<>>
    /\ inflight[2].d.log = <<>>

====
